---- MODULE Spec2Model ----
(***************************************************************************)
(* Bakery quotation agent: the conversational tool handlers of             *)
(* BakeryQuotationAgent (src/agent/orchestrator.py) acting on one          *)
(* QuoteState (src/models.py), the BOM API client (src/tools/bom_tool.py), *)
(* the material-cost database (src/tools/database_tool.py), the pricing    *)
(* calculator and unit converter, and the REST-side QuotationService.      *)
(*                                                                         *)
(* Strings that the code normalises (job types, material names) are        *)
(* sequences of one-character strings.  Optional values are <<>> (None)    *)
(* or <<v>>.  Quantities are integers in thousandths, money in hundredths. *)
(***************************************************************************)
EXTENDS Integers, Sequences, FiniteSets, TLC

VARIABLES quote_state, last, files, calculator, bom_tool, db_connections, builder
vars == <<quote_state, last, files, calculator, bom_tool, db_connections, builder>>

\* the variables of the BOM client, the database and the quote data builder
toolVars == <<bom_tool, db_connections, builder>>

(* ---------------- bounds ---------------- *)
MaxQuantity == 2
MaxClock == 1
MaxValue == 12
MaxConfiguredRetries == 3

(* ---------------- optional values ---------------- *)
None == <<>>
Some(v) == <<v>>
IsNone(o) == o = <<>>
IsSome(o) == o # <<>>
Val(o) == o[1]

(* ---------------- strings ---------------- *)
UpperChars == <<"A","B","C","D","E","F","G","H","I","J","K","L","M",
                "N","O","P","Q","R","S","T","U","V","W","X","Y","Z">>
LowerChars == <<"a","b","c","d","e","f","g","h","i","j","k","l","m",
                "n","o","p","q","r","s","t","u","v","w","x","y","z">>

Chars == { UpperChars[i] : i \in 1..26 } \cup { LowerChars[i] : i \in 1..26 }
           \cup {" ", "_"}

LowerTable ==
  [c \in Chars |->
     IF \E i \in 1..26 : UpperChars[i] = c
       THEN LowerChars[CHOOSE i \in 1..26 : UpperChars[i] = c]
       ELSE c]

\* str.lower() on one character
LowerChar(c) == LowerTable[c]

\* str.lower()
Lower(s) == [i \in 1..Len(s) |-> LowerChar(s[i])]

\* str.replace(' ', '_')
ReplaceSpace(s) == [i \in 1..Len(s) |-> IF s[i] = " " THEN "_" ELSE s[i]]

\* job_type.lower().replace(' ', '_')
NormalizeJobType(job_type) == ReplaceSpace(Lower(job_type))

S_cupcakes == <<"c","u","p","c","a","k","e","s">>
S_cake == <<"c","a","k","e">>
S_pastry_box == <<"p","a","s","t","r","y","_","b","o","x">>
S_Pastry_Box == <<"P","a","s","t","r","y"," ","B","o","x">>
S_Cup_Cakes_ == <<"C","u","p"," ","C","a","k","e","s"," ">>

S_flour == <<"f","l","o","u","r">>
S_FLOUR == <<"F","L","O","U","R">>
S_sugar == <<"s","u","g","a","r">>
S_eggs == <<"e","g","g","s">>
S_butter == <<"b","u","t","t","e","r">>
S_milk == <<"m","i","l","k">>
S_vanilla == <<"v","a","n","i","l","l","a">>
S_baking_powder == <<"b","a","k","i","n","g","_","p","o","w","d","e","r">>
S_cocoa == <<"c","o","c","o","a">>
S_salt == <<"s","a","l","t">>
S_unicorn_dust == <<"u","n","i","c","o","r","n","_","d","u","s","t">>

(* ---------------- fixed-point scales ---------------- *)
QtyScale == 1000      \* quantities and hours: thousandths
MoneyScale == 100     \* unit costs, rates and rounded money: hundredths

(* ---------------- QuoteState defaults (pricing configuration) ---------------- *)
labor_rate == 1500          \* 15.0 per hour, in hundredths
markup_pct == 30            \* percent
vat_pct == 20               \* percent
currency == "GBP"
DefaultCompanyName == "The Artisan Bakery"
max_retries == 3

(* ---------------- fallback recipes ---------------- *)
Mat(name, qty, unit) == [name |-> name, qty |-> qty, unit |-> unit]

\* per-unit quantities and labor hours, in thousandths
FALLBACK_RECIPES ==
  [jt \in {S_cupcakes, S_cake, S_pastry_box} |->
     IF jt = S_cupcakes THEN
       [materials |-> << Mat(S_flour, 500, "kg"), Mat(S_sugar, 300, "kg"),
                         Mat(S_eggs, 6000, "each"), Mat(S_butter, 200, "kg"),
                         Mat(S_milk, 200, "L") >>,
        labor_hours |-> 1500]
     ELSE IF jt = S_cake THEN
       [materials |-> << Mat(S_flour, 1000, "kg"), Mat(S_sugar, 800, "kg"),
                         Mat(S_eggs, 8000, "each"), Mat(S_butter, 500, "kg"),
                         Mat(S_milk, 400, "L") >>,
        labor_hours |-> 3000]
     ELSE
       [materials |-> << Mat(S_flour, 800, "kg"), Mat(S_sugar, 400, "kg"),
                         Mat(S_butter, 400, "kg"), Mat(S_eggs, 4000, "each") >>,
        labor_hours |-> 2000]]

\* the job types both fallback messages name: "cupcakes, cake, pastry_box"
KnownJobTypeNames == {S_cupcakes, S_cake, S_pastry_box}

(* ---------------- BOM estimation collaborator ---------------- *)
\* The pricing service behind POST /estimate: its catalogue of per-unit
\* recipes (thousandths) and the scaled response it returns.
ApiRecipes ==
  [jt \in {S_cupcakes, S_cake, S_pastry_box} |->
     IF jt = S_cupcakes THEN
       [materials |-> << Mat(S_flour, 80, "kg"), Mat(S_sugar, 60, "kg"),
                         Mat(S_butter, 40, "kg"), Mat(S_eggs, 500, "each"),
                         Mat(S_milk, 50, "L"), Mat(S_vanilla, 1000, "ml"),
                         Mat(S_baking_powder, 1, "kg") >>,
        labor_hours |-> 50]
     ELSE IF jt = S_cake THEN
       [materials |-> << Mat(S_flour, 500, "kg"), Mat(S_sugar, 400, "kg"),
                         Mat(S_butter, 300, "kg"), Mat(S_eggs, 4000, "each"),
                         Mat(S_milk, 250, "L") >>,
        labor_hours |-> 800]
     ELSE
       [materials |-> << Mat(S_flour, 600, "kg"), Mat(S_butter, 400, "kg"),
                         Mat(S_sugar, 200, "kg") >>,
        labor_hours |-> 600]]

\* up_empty: the collaborator answers 200 with an estimate that lists no material
ApiModes == {"up", "up_empty", "connect_error", "http_500", "http_400"}

ScaleMaterials(materials, quantity) ==
  [i \in 1..Len(materials) |->
     Mat(materials[i].name, materials[i].qty * quantity, materials[i].unit)]

\* response of the collaborator to {job_type, quantity}; status 0 = no response
Collaborator(job_type_lower, quantity, api) ==
  IF api = "connect_error" THEN [status |-> 0, body |-> None]
  ELSE IF api = "http_500" THEN [status |-> 500, body |-> None]
  ELSE IF api = "http_400" \/ job_type_lower \notin DOMAIN ApiRecipes
    THEN [status |-> 400, body |-> None]
  ELSE [status |-> 200,
        body |-> Some([job_type |-> job_type_lower,
                       quantity |-> quantity,
                       materials |-> IF api = "up_empty" THEN <<>>
                                     ELSE ScaleMaterials(ApiRecipes[job_type_lower].materials, quantity),
                       labor_hours |-> ApiRecipes[job_type_lower].labor_hours * quantity])]

(* ---------------- BOMAPITool ---------------- *)
\* EstimateResponse(**data): Material.qty is Field(gt=0), labor_hours Field(ge=0)
EstimateResponseValid(data) ==
  /\ \A i \in 1..Len(data.materials) : data.materials[i].qty > 0
  /\ data.labor_hours >= 0

\* BOMAPITool.estimate: exc is the exception class raised ("none" on return),
\* posts the number of POST /estimate requests sent
estimate(job_type, quantity, api) ==
  IF quantity <= 0 THEN [exc |-> "ValueError", est |-> None, posts |-> 0]
  ELSE
    LET job_type_lower == NormalizeJobType(job_type)
        response == Collaborator(job_type_lower, quantity, api)
    IN  IF response.status = 0
          THEN [exc |-> "bom_tool.APIConnectionError", est |-> None, posts |-> 1]
        ELSE IF response.status = 400
          THEN [exc |-> "bom_tool.InvalidJobTypeError", est |-> None, posts |-> 1]
        ELSE IF response.status # 200
          THEN [exc |-> "bom_tool.APIConnectionError", est |-> None, posts |-> 1]
        ELSE IF ~EstimateResponseValid(Val(response.body))
          THEN [exc |-> "pydantic.ValidationError", est |-> None, posts |-> 1]
        ELSE [exc |-> "none", est |-> response.body, posts |-> 1]

(* ---------------- material-cost database ---------------- *)
Row(name, unit, unit_cost) ==
  [name |-> name, unit |-> unit, unit_cost |-> unit_cost, currency |-> "GBP"]

\* rows of table materials (unit_cost in hundredths)
MaterialsTable ==
  { Row(S_flour, "kg", 90), Row(S_sugar, "kg", 70), Row(S_butter, "kg", 450),
    Row(S_eggs, "each", 18), Row(S_milk, "L", 60), Row(S_vanilla, "ml", 5),
    Row(S_baking_powder, "kg", 300), Row(S_cocoa, "kg", 600),
    Row(S_salt, "kg", 40) }

SeqToSet(names) == { names[i] : i \in 1..Len(names) }

\* WHERE name IN (...) COLLATE NOCASE: SQLite applies the trailing COLLATE
\* to the result of IN, and compares name (a column of BINARY collation)
\* with the listed values exactly
MatchesIn(row_name, material_names) ==
  \E n \in SeqToSet(material_names) : n = row_name

\* DatabaseTool.get_materials_bulk: dict keyed by the stored row name
get_materials_bulk(material_names) ==
  IF material_names = <<>> THEN <<>> ELSE
  LET rows == { r \in MaterialsTable : MatchesIn(r.name, material_names) }
  IN  [name \in { r.name : r \in rows } |->
         CHOOSE r \in rows : r.name = name]

(* ---------------- UnitConverter ---------------- *)
UNIT_FAMILIES == { {"kg", "g"}, {"L", "ml"}, {"each"} }

\* (from_unit, to_unit) -> factor as numerator / denominator
CONVERSIONS ==
  [key \in { <<"g","kg">>, <<"kg","g">>, <<"ml","L">>, <<"L","ml">>,
             <<"kg","kg">>, <<"g","g">>, <<"L","L">>, <<"ml","ml">>,
             <<"each","each">> } |->
     IF key \in { <<"g","kg">>, <<"ml","L">> } THEN [num |-> 1, den |-> 1000]
     ELSE IF key \in { <<"kg","g">>, <<"L","ml">> } THEN [num |-> 1000, den |-> 1]
     ELSE [num |-> 1, den |-> 1]]

can_convert(from_unit, to_unit) ==
  \/ from_unit = to_unit
  \/ \E family_units \in UNIT_FAMILIES :
        from_unit \in family_units /\ to_unit \in family_units

\* UnitConverter.convert with the factor applied exactly to a rational
\* value num/den: the quantities of the pricing model, in thousandths
convert_exact(value, from_unit, to_unit) ==
  IF ~can_convert(from_unit, to_unit)
    THEN [exc |-> "UnitConversionError", value |-> value]
  ELSE IF <<from_unit, to_unit>> \notin DOMAIN CONVERSIONS
    THEN [exc |-> "UnitConversionError", value |-> value]
  ELSE LET factor == CONVERSIONS[<<from_unit, to_unit>>]
       IN  [exc |-> "none",
            value |-> [num |-> value.num * factor.num,
                       den |-> value.den * factor.den]]

(* ---------------- float arithmetic ---------------- *)
\* Python floats are IEEE-754 binary64: a non-negative float is zero or
\* m * 2^e with 2^52 <= m < 2^53.  Naturals wider than a machine word are
\* little-endian sequences of limbs of LimbBits bits.
LimbBits == 14
Base == 16384
MantissaBits == 53
MantissaLimbs == 4
ProductLimbs == 8

Zero == [m |-> <<0, 0, 0, 0>>, e |-> 0]

Limb(P, j) == IF j >= 1 /\ j <= Len(P) THEN P[j] ELSE 0

\* bit i (from 0) of the natural P
Bit(P, i) == (Limb(P, (i \div LimbBits) + 1) \div 2^(i % LimbBits)) % 2

\* number of significant bits of the natural P
BitLen(P) ==
  IF \A j \in 1..Len(P) : P[j] = 0 THEN 0
  ELSE LET top == CHOOSE j \in 1..Len(P) :
                    P[j] # 0 /\ \A k \in (j+1)..Len(P) : P[k] = 0
           bl == CHOOSE k \in 1..LimbBits : 2^(k-1) <= P[top] /\ P[top] < 2^k
       IN  LimbBits * (top - 1) + bl

\* the n low limbs of floor(P / 2^s); s < 0 shifts left
ShiftRight(P, s, n) ==
  LET a == s \div LimbBits
      b == s % LimbBits
  IN  [j \in 1..n |->
         (Limb(P, j + a) \div 2^b) + (Limb(P, j + a + 1) % 2^b) * 2^(LimbBits - b)]

\* q + 1 on limbs
Inc(q) ==
  [j \in 1..Len(q) |->
     IF \A i \in 1..(j-1) : q[i] = Base - 1 THEN (q[j] + 1) % Base ELSE q[j]]

\* the float nearest to P * 2^e (ties to even); sticky: a non-zero amount
\* below the lowest bit of P was dropped
RoundToFloat(P, sticky, e) ==
  LET s == BitLen(P) - MantissaBits
      q == ShiftRight(P, s, MantissaLimbs)
      half == IF s >= 1 THEN Bit(P, s - 1) ELSE 0
      lower == sticky \/ \E i \in 0..(s-2) : Bit(P, i) = 1
      round_up == half = 1 /\ (lower \/ Bit(P, s) = 1)
      m == IF round_up THEN Inc(q) ELSE q
  IN  IF BitLen(m) > MantissaBits
        THEN [m |-> ShiftRight(m, 1, MantissaLimbs), e |-> e + s + 1]
        ELSE [m |-> m, e |-> e + s]

\* column k of the schoolbook product of two naturals of MantissaLimbs limbs
Column(a, b, k) ==
  LET term(i) == IF k + 1 - i >= 1 /\ k + 1 - i <= MantissaLimbs
                   THEN a[i] * b[k + 1 - i] ELSE 0
  IN  term(1) + term(2) + term(3) + term(4)

RECURSIVE MulColumns(_, _, _, _)
MulColumns(a, b, k, carry) ==
  IF k > ProductLimbs THEN <<>>
  ELSE LET t == Column(a, b, k) + carry
       IN  <<t % Base>> \o MulColumns(a, b, k + 1, t \div Base)

\* the exact product of two mantissas
BigMul(a, b) == MulColumns(a, b, 1, 0)

RECURSIVE DivSmall(_, _, _, _)
\* long division of the limbs P[1..j] (with rem carried in from above) by d
DivSmall(P, j, rem, d) ==
  IF j = 0 THEN [q |-> <<>>, r |-> rem]
  ELSE LET cur == rem * Base + P[j]
           lower == DivSmall(P, j - 1, cur % d, d)
       IN  [q |-> Append(lower.q, cur \div d), r |-> lower.r]

\* float(num / den) for a decimal literal num/den: the correctly rounded
\* quotient, from num * 2^84 divided by den
Float(num, den) ==
  IF num = 0 THEN Zero
  ELSE LET d == DivSmall(<<0, 0, 0, 0, 0, 0, num>>, 7, 0, den)
       IN  RoundToFloat(d.q, d.r # 0, -(6 * LimbBits))

\* x * y on floats
FMul(x, y) ==
  IF x = Zero \/ y = Zero THEN Zero
  ELSE RoundToFloat(BigMul(x.m, y.m), FALSE, x.e + y.e)

\* convert that hands the value back when no factor is defined
convert_without_factor_check(value, from_unit, to_unit) ==
  IF ~can_convert(from_unit, to_unit)
    THEN [exc |-> "UnitConversionError", value |-> None]
  ELSE IF <<from_unit, to_unit>> \notin DOMAIN CONVERSIONS
    THEN [exc |-> "none", value |-> Some(value)]
  ELSE LET factor == CONVERSIONS[<<from_unit, to_unit>>]
       IN  [exc |-> "none",
            value |-> Some(FMul(value, Float(factor.num, factor.den)))]

\* UnitConverter.convert on a float: value * factor
convert(value, from_unit, to_unit) ==
  IF ~can_convert(from_unit, to_unit)
    THEN [exc |-> "UnitConversionError", value |-> None]
  ELSE IF <<from_unit, to_unit>> \notin DOMAIN CONVERSIONS
    THEN [exc |-> "UnitConversionError", value |-> None]
  ELSE LET factor == CONVERSIONS[<<from_unit, to_unit>>]
       IN  [exc |-> "none",
            value |-> Some(FMul(value, Float(factor.num, factor.den)))]

(* ---------------- PricingCalculator ---------------- *)
\* round(n / d) to the nearest integer, ties to even (Python round)
RoundHalfEven(n, d) ==
  LET q == n \div d
      r == n % d
  IN  IF 2 * r < d THEN q
      ELSE IF 2 * r > d THEN q + 1
      ELSE IF q % 2 = 0 THEN q ELSE q + 1

\* round(x * k / d), the product taken in two parts to stay within 32 bits
MulDivRound(x, k, d) ==
  LET whole == (x \div d) * k
      part == (x % d) * k
      q == whole + (part \div d)
      r == part % d
  IN  IF 2 * r < d THEN q
      ELSE IF 2 * r > d THEN q + 1
      ELSE IF q % 2 = 0 THEN q ELSE q + 1

\* rate checks without the upper bound on vat_pct
CalculatorRatesNoUpperBound(rate, markup, vat) ==
  ~(rate < 0) /\ ~(markup < 0) /\ ~(vat < 0)

\* PricingCalculator.__init__ rate checks; rates as percentages of 1
CalculatorRatesValid(rate, markup, vat) ==
  ~(rate < 0) /\ ~(markup < 0) /\ ~(vat < 0 \/ vat > 100)

\* PricingCalculator(labor_rate, markup_pct, vat_pct): the calculator
\* constructed, None when __init__ raises ValueError
PricingCalculator(rate, markup, vat) ==
  IF CalculatorRatesValid(rate, markup, vat)
    THEN Some([labor_rate |-> rate, markup_pct |-> markup, vat_pct |-> vat])
    ELSE None

RECURSIVE SumLineCosts(_)
SumLineCosts(lines) ==
  IF lines = <<>> THEN 0
  ELSE lines[1].line_cost + SumLineCosts(Tail(lines))

\* scale of a line cost: quantity (thousandths) times unit cost (hundredths)
LineScale == QtyScale * MoneyScale

\* a cascade in which the markup is taken off the subtotal
calculate_quote_markup_deducted(lines, labor_hours, rate, markup, vat) ==
  LET materials_subtotal == SumLineCosts(lines)
      labor_cost == labor_hours * rate
      subtotal == materials_subtotal + labor_cost
      markup_value == subtotal * markup
      price_before_vat == subtotal * (100 - markup)
  IN  [materials_subtotal |-> RoundHalfEven(materials_subtotal, QtyScale),
       labor_hours |-> labor_hours,
       labor_cost |-> RoundHalfEven(labor_cost, QtyScale),
       subtotal |-> RoundHalfEven(subtotal, QtyScale),
       markup_value |-> RoundHalfEven(markup_value, QtyScale * 100),
       price_before_vat |-> RoundHalfEven(price_before_vat, QtyScale * 100),
       vat_value |-> MulDivRound(price_before_vat, vat, QtyScale * 100 * 100),
       total |-> MulDivRound(price_before_vat, 100 + vat, QtyScale * 100 * 100)]

\* PricingCalculator.calculate_quote: every total is computed from the
\* unrounded amounts and rounded to 2 decimals only when stored
calculate_quote(lines, labor_hours, rate, markup, vat) ==
  LET materials_subtotal == SumLineCosts(lines)
      labor_cost == labor_hours * rate
      subtotal == materials_subtotal + labor_cost
      \* markup_value = subtotal * markup/100, scale LineScale * 100
      markup_value == subtotal * markup
      price_before_vat == subtotal * (100 + markup)
  IN  [materials_subtotal |-> RoundHalfEven(materials_subtotal, QtyScale),
       labor_hours |-> labor_hours,
       labor_cost |-> RoundHalfEven(labor_cost, QtyScale),
       subtotal |-> RoundHalfEven(subtotal, QtyScale),
       markup_value |-> RoundHalfEven(markup_value, QtyScale * 100),
       price_before_vat |-> RoundHalfEven(price_before_vat, QtyScale * 100),
       vat_value |-> MulDivRound(price_before_vat, vat, QtyScale * 100 * 100),
       total |-> MulDivRound(price_before_vat, 100 + vat, QtyScale * 100 * 100)]

(* ---------------- QuoteState ---------------- *)
\* QuoteState() as BakeryQuotationAgent.__init__ leaves it
InitialQuoteState ==
  [job_type |-> None, quantity |-> None, customer_name |-> None,
   due_date |-> None, company_name |-> DefaultCompanyName, notes |-> "",
   bom_data |-> None, material_costs |-> None, calculations |-> None,
   quote_id |-> None]

\* reset that forgets to clear quote_id
reset_keeps_quote_id(qs) ==
  [qs EXCEPT !.job_type = None, !.quantity = None, !.customer_name = None,
             !.due_date = None, !.notes = "", !.bom_data = None,
             !.material_costs = None, !.calculations = None]

\* reset that forgets to clear calculations
reset_keeps_calculations(qs) ==
  [qs EXCEPT !.job_type = None, !.quantity = None, !.customer_name = None,
             !.due_date = None, !.notes = "", !.bom_data = None,
             !.material_costs = None, !.quote_id = None]

\* QuoteState.reset
reset(qs) ==
  [qs EXCEPT !.job_type = None, !.quantity = None, !.customer_name = None,
             !.due_date = None, !.notes = "", !.bom_data = None,
             !.material_costs = None, !.calculations = None,
             !.quote_id = None]

\* truthiness of an optional dict: None and {} are both falsy
Truthy(o) == IsSome(o) /\ DOMAIN Val(o) # {}

(* ---------------- get_bom_estimate ---------------- *)
\* an argument schema without the gt=0 constraint
GetBOMEstimateInputUnconstrained(quantity) == TRUE

\* GetBOMEstimateInput: quantity is Field(gt=0)
GetBOMEstimateInputValid(quantity) == quantity > 0

\* which except clause of get_bom_estimate_impl catches an exception raised
\* by bom_tool.estimate: clause 1 names models.APIConnectionError, a class
\* the BOM tool never raises (it raises bom_tool.APIConnectionError);
\* clause 2 is "except Exception"
ExceptClause(exc) == IF exc = "models.APIConnectionError" THEN 1 ELSE 2

\* labor hours taken from the recipe without scaling
scaled_labor_per_unit(recipe, quantity) == recipe.labor_hours

\* recipe["labor_hours"] * quantity
scaled_labor(recipe, quantity) == recipe.labor_hours * quantity

\* a fallback that records the requested job type and quantity before it
\* looks the recipe up
FallbackBranchStoresFirst(qs, job_type, quantity, refusal) ==
  LET job_type_normalized == NormalizeJobType(job_type)
      noted == [qs EXCEPT !.job_type = Some(job_type_normalized),
                          !.quantity = Some(quantity)]
  IN  IF job_type_normalized \notin DOMAIN FALLBACK_RECIPES
        THEN [qs |-> noted, kind |-> refusal, fallback |-> FALSE,
              named |-> KnownJobTypeNames]
      ELSE
        LET recipe == FALLBACK_RECIPES[job_type_normalized]
        IN  [qs |-> [noted EXCEPT
                       !.bom_data = Some([job_type |-> job_type_normalized,
                                          quantity |-> quantity,
                                          materials |-> ScaleMaterials(recipe.materials, quantity),
                                          labor_hours |-> scaled_labor(recipe, quantity)])],
             kind |-> "ok", fallback |-> TRUE, named |-> {}]

\* a fallback that keeps the estimate already stored
FallbackBranchKeepsStored(qs, job_type, quantity, refusal) ==
  LET job_type_normalized == NormalizeJobType(job_type)
  IN  IF job_type_normalized \notin DOMAIN FALLBACK_RECIPES
        THEN [qs |-> qs, kind |-> refusal, fallback |-> FALSE,
              named |-> KnownJobTypeNames]
      ELSE IF IsSome(qs.bom_data)
        THEN [qs |-> qs, kind |-> "ok", fallback |-> TRUE, named |-> {}]
      ELSE
        LET recipe == FALLBACK_RECIPES[job_type_normalized]
        IN  [qs |-> [qs EXCEPT
                       !.bom_data = Some([job_type |-> job_type_normalized,
                                          quantity |-> quantity,
                                          materials |-> ScaleMaterials(recipe.materials, quantity),
                                          labor_hours |-> scaled_labor(recipe, quantity)]),
                       !.job_type = Some(job_type_normalized),
                       !.quantity = Some(quantity)],
             kind |-> "ok", fallback |-> TRUE, named |-> {}]

\* the body shared by both except clauses: look the normalized job type up
\* in FALLBACK_RECIPES, refuse when absent, else store the scaled recipe
FallbackBranch(qs, job_type, quantity, refusal) ==
  LET job_type_normalized == NormalizeJobType(job_type)
  IN  IF job_type_normalized \notin DOMAIN FALLBACK_RECIPES
        THEN [qs |-> qs, kind |-> refusal, fallback |-> FALSE,
              named |-> KnownJobTypeNames]
      ELSE
        LET recipe == FALLBACK_RECIPES[job_type_normalized]
        IN  [qs |-> [qs EXCEPT
                       !.bom_data = Some([job_type |-> job_type_normalized,
                                          quantity |-> quantity,
                                          materials |-> ScaleMaterials(recipe.materials, quantity),
                                          labor_hours |-> scaled_labor(recipe, quantity)]),
                       !.job_type = Some(job_type_normalized),
                       !.quantity = Some(quantity)],
             kind |-> "ok", fallback |-> TRUE, named |-> {}]

get_bom_estimate_impl(qs, job_type, quantity, api) ==
  LET r == estimate(job_type, quantity, api)
  IN  IF r.exc = "none"
        THEN [qs |-> [qs EXCEPT !.bom_data = r.est,
                                !.job_type = Some(job_type),
                                !.quantity = Some(quantity)],
              kind |-> "ok", fallback |-> FALSE, named |-> {},
              exc |-> r.exc, attempts |-> r.posts]
      ELSE
        LET b == IF ExceptClause(r.exc) = 1
                   THEN FallbackBranch(qs, job_type, quantity, "unknown_job_type")
                   ELSE FallbackBranch(qs, job_type, quantity, "cannot_get_bom")
        IN  [qs |-> b.qs, kind |-> b.kind, fallback |-> b.fallback,
             named |-> b.named, exc |-> r.exc,
             attempts |-> r.posts]

(* ---------------- query_material_costs ---------------- *)
\* self.quote_state.material_costs = costs
StoreCosts(old_costs, costs) == Some(costs)

\* db_ok = FALSE: the database raises (sqlite3 error), caught by the handler
query_material_costs_impl(qs, material_names, db_ok) ==
  IF ~db_ok
    THEN [qs |-> qs, kind |-> "error_querying", missing |-> {}]
  ELSE
    LET costs == get_materials_bulk(material_names)
        found == DOMAIN costs
        requested == SeqToSet(material_names)
        missing == requested \ found
    IN  [qs |-> [qs EXCEPT !.material_costs = StoreCosts(qs.material_costs, costs)],
         kind |-> IF missing # {} THEN "missing_materials" ELSE "ok",
         missing |-> missing]

(* ---------------- render_quote ---------------- *)
RECURSIVE BuildLines(_, _)
\* the loop of _calculate_quote_totals over bom_data['materials']; exc names
\* the first exception raised (KeyError for a material without a cost)
BuildLines(materials, material_costs) ==
  IF materials = <<>> THEN [exc |-> "none", lines |-> <<>>]
  ELSE
    LET material == materials[1]
    IN  IF material.name \notin DOMAIN material_costs
          THEN [exc |-> "KeyError", lines |-> <<>>]
        ELSE
          LET cost_data == material_costs[material.name]
              qty_converted ==
                IF material.unit # cost_data.unit
                  THEN convert_exact([num |-> material.qty, den |-> 1],
                                     material.unit, cost_data.unit)
                  ELSE [exc |-> "none", value |-> [num |-> material.qty, den |-> 1]]
              rest == BuildLines(Tail(materials), material_costs)
          IN  IF qty_converted.exc # "none"
                THEN [exc |-> qty_converted.exc, lines |-> <<>>]
              ELSE IF rest.exc # "none" THEN rest
              ELSE [exc |-> "none",
                    lines |-> << [name |-> material.name,
                                  qty |-> material.qty,
                                  unit |-> material.unit,
                                  unit_cost |-> cost_data.unit_cost,
                                  line_cost |-> (qty_converted.value.num * cost_data.unit_cost)
                                                  \div qty_converted.value.den] >>
                              \o rest.lines]

\* BakeryQuotationAgent._calculate_quote_totals (bom_data and material_costs
\* are present when render_quote_impl calls it)
calculate_quote_totals(qs) ==
  IF ~CalculatorRatesValid(labor_rate, markup_pct, vat_pct)
    THEN [exc |-> "ValueError", calc |-> None]
  ELSE
    LET built == BuildLines(Val(qs.bom_data).materials, Val(qs.material_costs))
    IN  IF built.exc # "none" THEN [exc |-> built.exc, calc |-> None]
        ELSE IF IsNone(qs.quantity) THEN [exc |-> "TypeError", calc |-> None]
        ELSE IF Val(qs.quantity) = 0 THEN [exc |-> "ZeroDivisionError", calc |-> None]
        ELSE
          LET calculations == calculate_quote(built.lines, Val(qs.bom_data).labor_hours,
                                              labor_rate, markup_pct, vat_pct)
          IN  [exc |-> "none",
               calc |-> Some([materials_subtotal |-> calculations.materials_subtotal,
                              labor_cost |-> calculations.labor_cost,
                              subtotal |-> calculations.subtotal,
                              markup_value |-> calculations.markup_value,
                              price_before_vat |-> calculations.price_before_vat,
                              vat_value |-> calculations.vat_value,
                              total |-> calculations.total,
                              unit_price |-> [num |-> calculations.total,
                                              den |-> Val(qs.quantity)],
                              lines |-> built.lines,
                              labor_hours |-> Val(qs.bom_data).labor_hours])]

IoOutcomes == {"ok", "save_fails", "pdf_fails"}

\* render_quote_impl; now is datetime.now() (seconds), io the outcome of the
\* file operations (template_tool.render_and_save, _generate_pdf).
\* written: the quote_<id>.md file was written
render_quote_impl(qs, customer_name, due_date, company_name, notes, now, io) ==
  LET updated == [qs EXCEPT !.customer_name = Some(customer_name),
                            !.due_date = Some(due_date),
                            !.company_name = company_name,
                            !.notes = notes]
  IN  IF ~Truthy(updated.bom_data)
        THEN [qs |-> updated, kind |-> "no_bom_data", written |-> FALSE]
      ELSE IF ~Truthy(updated.material_costs)
        THEN [qs |-> updated, kind |-> "no_material_costs", written |-> FALSE]
      ELSE
        LET totals == calculate_quote_totals(updated)
        IN  IF totals.exc # "none"
              THEN [qs |-> updated, kind |-> "error_rendering", written |-> FALSE]
            ELSE
              LET priced == [updated EXCEPT !.calculations = totals.calc,
                                            !.quote_id = Some(now)]
              IN  IF io = "save_fails"
                    THEN [qs |-> priced, kind |-> "error_rendering", written |-> FALSE]
                  ELSE IF io = "pdf_fails"
                    THEN [qs |-> priced, kind |-> "error_rendering", written |-> TRUE]
                  ELSE [qs |-> priced, kind |-> "ok", written |-> TRUE]

(* ---------------- QuotationService ---------------- *)
\* QuotationService.generate_quote up to the quote id: the BOM is resolved
\* by bom_tool.estimate alone; any exception propagates to the caller
generate_quote(job_type, quantity, api) ==
  LET r == estimate(job_type, quantity, api)
  IN  IF r.exc # "none" THEN [exc |-> r.exc, est |-> None, written |-> FALSE]
      ELSE
        LET est == Val(r.est)
            material_names == [i \in 1..Len(est.materials) |-> est.materials[i].name]
            costs == get_materials_bulk(material_names)
            missing == SeqToSet(material_names) \ DOMAIN costs
        IN  IF missing # {} THEN [exc |-> "ValueError", est |-> r.est, written |-> FALSE]
            ELSE
              LET built == BuildLines(est.materials, costs)
              IN  IF built.exc # "none"
                    THEN [exc |-> built.exc, est |-> r.est, written |-> FALSE]
                  ELSE [exc |-> "none", est |-> r.est, written |-> TRUE]

(* ---------------- orchestration stages ---------------- *)
\* the stage of the session, read off the stored data
Stage(qs, written_ids) ==
  IF IsSome(qs.calculations) /\ IsSome(qs.quote_id) /\ Val(qs.quote_id) \in written_ids
    THEN "RENDERED"
  ELSE IF IsSome(qs.calculations) THEN "PRICED"
  ELSE IF IsSome(qs.bom_data) /\ IsSome(qs.material_costs) THEN "COSTS_RESOLVED"
  ELSE IF IsSome(qs.bom_data) THEN "BOM_RESOLVED"
  ELSE "GATHERING"

(* ---------------- inputs ---------------- *)
JobTypeInputs == {S_cupcakes, S_Pastry_Box, S_Cup_Cakes_}
QuantityInputs == 0 .. MaxQuantity

\* the inputs of get_bom_estimate in the specification of the whole session
SessionJobTypes == {S_cupcakes, S_Pastry_Box}
SessionQuantities == {MaxQuantity}
SessionApiModes == {"up", "up_empty", "connect_error"}
Timestamps == 1 .. MaxClock

MaterialNames(materials) == [i \in 1..Len(materials) |-> materials[i].name]

\* the name lists a cost query is made with: the materials of the stored
\* estimate, and fixed lists with an unknown name, another case, no name
NameRequests(qs) ==
  (IF IsSome(qs.bom_data) THEN {MaterialNames(Val(qs.bom_data).materials)} ELSE {})
  \cup { <<S_flour, S_unicorn_dust>>, <<S_FLOUR>>, <<>> }

RenderInputs ==
  { [customer_name |-> "Alice", due_date |-> "2025-12-25",
     company_name |-> "Test Bakery", notes |-> "gift"] }

(* ---------------- the record of the last call ---------------- *)
\* the fields of QuoteState a call changed
Changed(qs, qs2) == { f \in DOMAIN qs : qs[f] # qs2[f] }

\* the names whose stored cost a call removed
Dropped(qs, qs2) ==
  IF IsNone(qs.material_costs) THEN {}
  ELSE DOMAIN Val(qs.material_costs)
         \ (IF IsNone(qs2.material_costs) THEN {} ELSE DOMAIN Val(qs2.material_costs))

NoCall ==
  [op |-> "none", kind |-> "none", exc |-> "none",
   job_type |-> <<>>, quantity |-> 0, api |-> "none",
   missing |-> {}, named |-> {}, attempts |-> 0, fallback |-> FALSE,
   est |-> None, changed |-> {}, dropped |-> {},
   args |-> None, result |-> None]

\* the record of a call of op that takes the session from quote_state to qs2
Call(op, qs2) ==
  [NoCall EXCEPT !.op = op,
                 !.changed = Changed(quote_state, qs2),
                 !.dropped = Dropped(quote_state, qs2)]

\* QuoteDataBuilder(): self.data = {}
QuoteDataBuilder == <<>>

(* ---------------- actions ---------------- *)
Init ==
  /\ quote_state = InitialQuoteState
  /\ last = NoCall
  /\ files = {}
  /\ calculator = None
  /\ bom_tool = None
  /\ db_connections = 0
  /\ builder = QuoteDataBuilder

\* the tool get_bom_estimate: argument validation, then get_bom_estimate_impl
GetBomEstimateOver(job_types, quantities, api_modes) ==
  \E job_type \in job_types, quantity \in quantities, api \in api_modes :
    /\ IF ~GetBOMEstimateInputValid(quantity)
         THEN /\ quote_state' = quote_state
              /\ last' = [Call("get_bom_estimate", quote_state) EXCEPT
                            !.job_type = job_type, !.quantity = quantity,
                            !.api = api, !.kind = "invalid_quantity",
                            !.exc = "pydantic.ValidationError"]
         ELSE LET r == get_bom_estimate_impl(quote_state, job_type, quantity, api)
              IN  /\ quote_state' = r.qs
                  /\ last' = [Call("get_bom_estimate", r.qs) EXCEPT
                                !.job_type = job_type, !.quantity = quantity,
                                !.api = api, !.kind = r.kind, !.exc = r.exc,
                                !.named = r.named, !.attempts = r.attempts,
                                !.fallback = r.fallback]
    /\ UNCHANGED <<files, calculator>>
    /\ UNCHANGED toolVars

GetBomEstimate == GetBomEstimateOver(JobTypeInputs, QuantityInputs, ApiModes)

SessionGetBomEstimate ==
  GetBomEstimateOver(SessionJobTypes, SessionQuantities, SessionApiModes)

\* the tool query_material_costs
QueryMaterialCosts ==
  \E material_names \in NameRequests(quote_state), db_ok \in BOOLEAN :
    LET r == query_material_costs_impl(quote_state, material_names, db_ok)
    IN  /\ quote_state' = r.qs
        /\ last' = [Call("query_material_costs", r.qs) EXCEPT
                      !.kind = r.kind, !.missing = r.missing,
                      !.args = Some(material_names)]
        /\ UNCHANGED <<files, calculator>>
        /\ UNCHANGED toolVars

\* the tool render_quote
RenderQuote ==
  \E in \in RenderInputs, now \in Timestamps, io \in IoOutcomes :
    LET r == render_quote_impl(quote_state, in.customer_name, in.due_date,
                               in.company_name, in.notes, now, io)
    IN  /\ quote_state' = r.qs
        /\ last' = [Call("render_quote", r.qs) EXCEPT !.kind = r.kind]
        /\ files' = IF r.written THEN files \cup {now} ELSE files
        /\ UNCHANGED calculator
        /\ UNCHANGED toolVars

\* BakeryQuotationAgent.reset
Reset ==
  /\ quote_state' = reset(quote_state)
  /\ last' = [Call("reset", reset(quote_state)) EXCEPT !.kind = "ok"]
  /\ UNCHANGED <<files, calculator>>
  /\ UNCHANGED toolVars

\* QuoteRequest: quantity is Field(gt=0)
QuoteRequestValid(quantity) == quantity > 0

\* POST /quotes: request validation, then QuotationService.generate_quote
\* (no session state)
GenerateQuote ==
  \E job_type \in JobTypeInputs, quantity \in QuantityInputs, api \in ApiModes,
     now \in Timestamps :
    LET call == [Call("generate_quote", quote_state) EXCEPT
                   !.job_type = job_type, !.quantity = quantity, !.api = api]
    IN  /\ IF ~QuoteRequestValid(quantity)
             THEN /\ last' = [call EXCEPT !.kind = "invalid_quantity",
                                          !.exc = "pydantic.ValidationError"]
                  /\ files' = files
             ELSE LET r == generate_quote(job_type, quantity, api)
                  IN  /\ last' = [call EXCEPT
                                    !.exc = r.exc,
                                    !.kind = IF r.exc = "none" THEN "ok" ELSE "raised",
                                    !.est = r.est]
                      /\ files' = IF r.written THEN files \cup {now} ELSE files
        /\ UNCHANGED <<quote_state, calculator>>
        /\ UNCHANGED toolVars

\* one conversation: the four tools and reset
Next ==
  \/ SessionGetBomEstimate
  \/ QueryMaterialCosts
  \/ RenderQuote
  \/ Reset

Spec == Init /\ [][Next]_vars

\* BOM resolution at both call sites, over all inputs
NextBom ==
  \/ GetBomEstimate
  \/ GenerateQuote
  \/ Reset

SpecBom == Init /\ [][NextBom]_vars

(* ---------------- the calculator on its own ---------------- *)
\* a material line as _calculate_quote_totals builds it:
\* line_cost = qty_converted * unit_cost
Line(name, qty, unit, unit_cost) ==
  [name |-> name, qty |-> qty, unit |-> unit, unit_cost |-> unit_cost,
   line_cost |-> qty * unit_cost]

\* flour 1.92 kg at 0.90, sugar 1.44 kg at 0.70, butter 0.96 kg at 4.50,
\* eggs 12 at 0.18
ScenarioLines ==
  << Line(S_flour, 1920, "kg", 90), Line(S_sugar, 1440, "kg", 70),
     Line(S_butter, 960, "kg", 450), Line(S_eggs, 12000, "each", 18) >>

LinesInputs ==
  { <<>>, ScenarioLines, << Line(S_cocoa, 1253, "kg", 800) >>,
    << Line(S_flour, 1000, "kg", 90) >> }

LaborHoursInputs == {0, 1111, 1200}
LaborRateInputs == {-1, 0, 1500}
MarkupInputs == {-1, 0, 30, 100}
VatInputs == {-1, 0, 20, 100, 101}

\* calculator = PricingCalculator(labor_rate, markup_pct, vat_pct); when the
\* constructor raises, the name keeps the calculator it had
NewPricingCalculator ==
  \E rate \in LaborRateInputs, markup \in MarkupInputs, vat \in VatInputs :
    LET made == PricingCalculator(rate, markup, vat)
    IN  /\ calculator' = IF IsSome(made) THEN made ELSE calculator
        /\ last' = [NoCall EXCEPT
                      !.op = "PricingCalculator",
                      !.kind = IF IsSome(made) THEN "ok" ELSE "raised",
                      !.exc = IF IsSome(made) THEN "none" ELSE "ValueError",
                      !.args = Some([labor_rate |-> rate, markup_pct |-> markup,
                                     vat_pct |-> vat]),
                      !.result = made]
        /\ UNCHANGED <<quote_state, files>>
        /\ UNCHANGED toolVars

\* calculator.calculate_quote(materials, labor_hours)
CalculateQuote ==
  /\ IsSome(calculator)
  /\ \E lines \in LinesInputs, labor_hours \in LaborHoursInputs :
       LET c == Val(calculator)
       IN  last' = [NoCall EXCEPT
                      !.op = "calculate_quote",
                      !.kind = "ok",
                      !.args = Some([lines |-> lines, labor_hours |-> labor_hours,
                                     labor_rate |-> c.labor_rate,
                                     markup_pct |-> c.markup_pct,
                                     vat_pct |-> c.vat_pct]),
                      !.result = Some(calculate_quote(lines, labor_hours, c.labor_rate,
                                                      c.markup_pct, c.vat_pct))]
  /\ UNCHANGED <<quote_state, files, calculator>>
  /\ UNCHANGED toolVars

(* ---------------- configured rates ---------------- *)
\* Config.validate rate checks (an API key is set); markup and vat in
\* percent as configured, rate in hundredths
ConfigValid(rate, markup, vat) ==
  ~(rate <= 0) /\ ~(markup < 0) /\ ~(vat < 0)

\* config.validate(), then the calculator of _calculate_quote_totals:
\* PricingCalculator(labor_rate, markup_pct / 100, vat_pct / 100)
ConfiguredCalculator ==
  \E rate \in LaborRateInputs, markup \in MarkupInputs, vat \in VatInputs :
    LET accepted == ConfigValid(rate, markup, vat)
        made == PricingCalculator(rate, markup, vat)
    IN  /\ last' = [NoCall EXCEPT
                      !.op = "configured_calculator",
                      !.kind = IF ~accepted THEN "config_rejected"
                               ELSE IF IsSome(made) THEN "ok" ELSE "raised",
                      !.exc = IF ~accepted \/ IsNone(made) THEN "ValueError"
                              ELSE "none",
                      !.args = Some([labor_rate |-> rate, markup_pct |-> markup,
                                     vat_pct |-> vat]),
                      !.result = IF accepted THEN made ELSE None]
        /\ UNCHANGED <<quote_state, files, calculator>>
        /\ UNCHANGED toolVars

NextCalc ==
  \/ NewPricingCalculator
  \/ CalculateQuote
  \/ ConfiguredCalculator

SpecCalc == Init /\ [][NextCalc]_vars

(* ---------------- the converter on its own ---------------- *)
UnitInputs == {"kg", "g", "L", "ml", "each", "lb"}

\* the values converted: the floats 0.0, 1.0, ..., MaxValue
ValueInputs == { Float(v, 1) : v \in 0..MaxValue }

\* converter.convert(value, from_unit, to_unit)
Convert ==
  \E value \in ValueInputs, from_unit \in UnitInputs, to_unit \in UnitInputs :
    LET r == convert(value, from_unit, to_unit)
    IN  /\ last' = [NoCall EXCEPT
                      !.op = "convert",
                      !.kind = IF r.exc = "none" THEN "ok" ELSE "raised",
                      !.exc = r.exc,
                      !.args = Some([value |-> value, from_unit |-> from_unit,
                                     to_unit |-> to_unit]),
                      !.result = r.value]
        /\ UNCHANGED <<quote_state, files, calculator>>
        /\ UNCHANGED toolVars

NextConv == Convert

SpecConv == Init /\ [][NextConv]_vars

(* ---------------- TemplateTool and QuoteDataBuilder ---------------- *)
\* datetime.now().strftime("%Y-%m-%d")
Today == "2025-12-18"

\* set_header: dict.update with the three names, quote_date (today when
\* None is passed) and valid_until (today + valid_days, kept symbolic)
set_header(data, a) ==
  [quote_id |-> a.quote_id,
   company_name |-> a.company_name,
   customer_name |-> a.customer_name,
   quote_date |-> IF IsNone(a.quote_date) THEN Today ELSE Val(a.quote_date),
   valid_until |-> <<Today, a.valid_days>>] @@ data

set_project(data, a) ==
  [job_type |-> a.job_type, quantity |-> a.quantity, due_date |-> a.due_date] @@ data

set_materials(data, a) == [lines |-> a.lines] @@ data

set_labor(data, a) ==
  [labor_hours |-> a.labor_hours, labor_rate |-> a.labor_rate,
   labor_cost |-> a.labor_cost] @@ data

set_calculations(data, a) ==
  [materials_subtotal |-> a.materials_subtotal, subtotal |-> a.subtotal,
   markup_pct |-> a.markup_pct, markup_value |-> a.markup_value,
   price_before_vat |-> a.price_before_vat, vat_pct |-> a.vat_pct,
   vat_value |-> a.vat_value, total |-> a.total, currency |-> a.currency] @@ data

set_notes(data, a) == [notes |-> a.notes] @@ data

\* the list "required" of QuoteDataBuilder.build
BuildRequired ==
  << "quote_id", "company_name", "customer_name", "job_type", "quantity",
     "total", "currency" >>

\* the fields of a list that data lacks, in the order of the list
MissingFields(fields, data) ==
  SelectSeq(fields, LAMBDA f : f \notin DOMAIN data)

\* a build that reports the first missing field only
build_reports_first_missing(data) ==
  LET missing == MissingFields(BuildRequired, data)
  IN  IF missing # <<>>
        THEN [exc |-> "ValueError", missing |-> <<Head(missing)>>, data |-> None]
        ELSE [exc |-> "none", missing |-> <<>>, data |-> Some(data)]

\* QuoteDataBuilder.build
build(data) ==
  LET missing == MissingFields(BuildRequired, data)
  IN  IF missing # <<>>
        THEN [exc |-> "ValueError", missing |-> missing, data |-> None]
        ELSE [exc |-> "none", missing |-> <<>>, data |-> Some(data)]

\* the list "required_fields" of TemplateTool._validate_data
required_fields ==
  << "company_name", "quote_id", "quote_date", "customer_name", "job_type",
     "quantity", "due_date", "lines", "currency", "total" >>

\* TemplateTool._validate_data: the missing fields (ValueError when any)
validate_data(data) == MissingFields(required_fields, data)

\* TemplateTool.render: any exception becomes TemplateRenderError
render(data) ==
  IF validate_data(data) # <<>>
    THEN [exc |-> "TemplateRenderError", missing |-> validate_data(data)]
    ELSE [exc |-> "none", missing |-> <<>>]

\* TemplateTool.render_and_save; save_ok: the output file can be written
render_and_save(data, save_ok) ==
  IF "quote_id" \notin DOMAIN data
    THEN [exc |-> "ValueError", missing |-> <<"quote_id">>, written |-> FALSE]
  ELSE IF render(data).exc # "none"
    THEN [exc |-> render(data).exc, missing |-> render(data).missing,
          written |-> FALSE]
  ELSE IF ~save_ok
    THEN [exc |-> "TemplateRenderError", missing |-> <<>>, written |-> FALSE]
  ELSE [exc |-> "none", missing |-> <<>>, written |-> TRUE]

HeaderInputs ==
  { [quote_id |-> "Q001", company_name |-> "Test Bakery",
     customer_name |-> "Alice", quote_date |-> d, valid_days |-> 30]
      : d \in {None, Some("2025-12-01")} }

ProjectInputs ==
  { [job_type |-> "cupcakes", quantity |-> q, due_date |-> "2025-12-25"]
      : q \in {12, 24} }

MaterialsInputs == { [lines |-> << Line(S_flour, 1920, "kg", 90) >>] }

LaborInputs == { [labor_hours |-> 1200, labor_rate |-> 1500, labor_cost |-> 1800] }

CalculationsInputs ==
  { [materials_subtotal |-> 173, subtotal |-> 1973, markup_pct |-> 30,
     markup_value |-> 592, price_before_vat |-> 2565, vat_pct |-> 20,
     vat_value |-> 513, total |-> 3078, currency |-> c] : c \in {"GBP", "EUR"} }

NotesInputs == { [notes |-> ""] }

\* the setter calls a builder can receive
SetterCalls ==
  { [setter |-> "set_header", args |-> a] : a \in HeaderInputs }
  \cup { [setter |-> "set_project", args |-> a] : a \in ProjectInputs }
  \cup { [setter |-> "set_materials", args |-> a] : a \in MaterialsInputs }
  \cup { [setter |-> "set_labor", args |-> a] : a \in LaborInputs }
  \cup { [setter |-> "set_calculations", args |-> a] : a \in CalculationsInputs }
  \cup { [setter |-> "set_notes", args |-> a] : a \in NotesInputs }

\* builder.<setter>(**args)
ApplySetter(call, data) ==
  IF call.setter = "set_header" THEN set_header(data, call.args)
  ELSE IF call.setter = "set_project" THEN set_project(data, call.args)
  ELSE IF call.setter = "set_materials" THEN set_materials(data, call.args)
  ELSE IF call.setter = "set_labor" THEN set_labor(data, call.args)
  ELSE IF call.setter = "set_calculations" THEN set_calculations(data, call.args)
  ELSE set_notes(data, call.args)

\* one setter call on the builder
CallSetter ==
  \E call \in SetterCalls :
    /\ builder' = ApplySetter(call, builder)
    /\ last' = [NoCall EXCEPT !.op = call.setter, !.kind = "ok",
                              !.args = Some(call.args)]
    /\ UNCHANGED <<quote_state, files, calculator, bom_tool, db_connections>>

\* builder.build()
Build ==
  LET r == build(builder)
  IN  /\ last' = [NoCall EXCEPT !.op = "build",
                                !.kind = IF r.exc = "none" THEN "ok" ELSE "raised",
                                !.exc = r.exc,
                                !.missing = SeqToSet(r.missing),
                                !.result = r.data]
      /\ UNCHANGED <<quote_state, files, calculator, toolVars>>

\* template_tool.render_and_save(builder.build()), as QuotationService does
BuildAndRender ==
  \E save_ok \in BOOLEAN :
    LET b == build(builder)
        r == render_and_save(Val(b.data), save_ok)
    IN  /\ last' = IF b.exc # "none"
                     THEN [NoCall EXCEPT !.op = "build_and_render",
                                         !.kind = "build_raised", !.exc = b.exc,
                                         !.missing = SeqToSet(b.missing)]
                     ELSE [NoCall EXCEPT !.op = "build_and_render",
                                         !.kind = IF r.exc = "none" THEN "ok"
                                                  ELSE "render_raised",
                                         !.exc = r.exc,
                                         !.missing = SeqToSet(r.missing),
                                         !.result = b.data]
        /\ UNCHANGED <<quote_state, files, calculator, toolVars>>

NextBuilder ==
  \/ CallSetter
  \/ Build
  \/ BuildAndRender

SpecBuilder == Init /\ [][NextBuilder]_vars

(* ---------------- BOMAPITool and DatabaseTool as objects ---------------- *)
\* BOMAPITool._verify_connection: GET /job-types through _get_client();
\* httpx.ConnectError and every other Exception are caught and logged, so
\* the call returns whatever the API does
verify_connection(api) ==
  [exc |-> "none",
   logged |-> IF api = "connect_error" THEN "cannot_connect"
              ELSE IF api \in {"http_500", "http_400"} THEN "health_check_failed"
              ELSE "connected"]

\* BOMAPITool(max_retries=retries): the object constructed, with the
\* httpx.Client that _verify_connection made _get_client create
BOMAPITool(retries, api) ==
  LET v == verify_connection(api)
  IN  IF v.exc # "none" THEN [exc |-> v.exc, tool |-> None]
      ELSE [exc |-> "none",
            tool |-> Some([max_retries |-> retries, client |-> TRUE])]

\* a retry loop that waits after every failed attempt
always_waits(attempt, retries) == TRUE

\* if attempt < self.max_retries - 1: time.sleep(2 ** attempt)
waits_before_next(attempt, retries) == attempt < retries - 1

RECURSIVE RetryLoop(_, _, _, _, _, _, _, _)
\* the for loop of estimate_with_retry from iteration attempt on; apis[i] is
\* the state of the API at the i-th request; outcomes: the exception of
\* each call of estimate ("none" for a response); sleeps: the waits made
RetryLoop(job_type, quantity, apis, retries, attempt, last_error, outcomes, sleeps) ==
  IF attempt >= retries
    THEN \* raise last_error; raising None is a TypeError
         [exc |-> IF IsNone(last_error) THEN "TypeError" ELSE Val(last_error),
          est |-> None, outcomes |-> outcomes, sleeps |-> sleeps]
  ELSE
    LET r == estimate(job_type, quantity, apis[attempt + 1])
    IN  IF r.exc = "none"
          THEN [exc |-> "none", est |-> r.est,
                outcomes |-> Append(outcomes, r.exc), sleeps |-> sleeps]
        ELSE IF r.exc = "bom_tool.APIConnectionError"
          THEN RetryLoop(job_type, quantity, apis, retries, attempt + 1,
                         Some(r.exc), Append(outcomes, r.exc),
                         IF waits_before_next(attempt, retries)
                           THEN Append(sleeps, 2^attempt) ELSE sleeps)
        ELSE [exc |-> r.exc, est |-> None,
              outcomes |-> Append(outcomes, r.exc), sleeps |-> sleeps]

\* BOMAPITool.estimate_with_retry
estimate_with_retry(job_type, quantity, apis, retries) ==
  RetryLoop(job_type, quantity, apis, retries, 0, None, <<>>, <<>>)

\* with self._get_connection() as conn: ... finally: conn.close()
\* the number of open connections after an operation that began with n
connection_scope(n, db_ok) ==
  LET opened == n + 1
  IN  opened - 1

RetryApiModes == {"up", "connect_error", "http_400"}
RetryQuantities == {0, 1}
RetrySettings == 0 .. MaxConfiguredRetries

\* the state of the API at each request of one call
ApiSequences == [1..MaxConfiguredRetries -> RetryApiModes]

\* bom_tool = BOMAPITool(max_retries=retries)
NewBOMAPITool ==
  \E retries \in RetrySettings, api \in RetryApiModes :
    LET made == BOMAPITool(retries, api)
    IN  /\ bom_tool' = IF IsSome(made.tool) THEN made.tool ELSE bom_tool
        /\ last' = [NoCall EXCEPT !.op = "BOMAPITool",
                                  !.kind = IF made.exc = "none" THEN "ok" ELSE "raised",
                                  !.exc = made.exc, !.api = api,
                                  !.args = Some([max_retries |-> retries]),
                                  !.result = made.tool]
        /\ UNCHANGED <<quote_state, files, calculator, db_connections, builder>>

\* bom_tool.estimate_with_retry(job_type, quantity); every request goes
\* through _get_client(), which creates the client when there is none
EstimateWithRetry ==
  /\ IsSome(bom_tool)
  /\ \E quantity \in RetryQuantities, apis \in ApiSequences :
       LET tool == Val(bom_tool)
           r == estimate_with_retry(S_cupcakes, quantity, apis, tool.max_retries)
           requested == \E i \in 1..Len(r.outcomes) : r.outcomes[i] # "ValueError"
       IN  /\ bom_tool' = Some([tool EXCEPT !.client = tool.client \/ requested])
           /\ last' = [NoCall EXCEPT
                         !.op = "estimate_with_retry",
                         !.kind = IF r.exc = "none" THEN "ok" ELSE "raised",
                         !.exc = r.exc, !.est = r.est,
                         !.job_type = S_cupcakes, !.quantity = quantity,
                         !.attempts = Len(r.outcomes),
                         !.args = Some([max_retries |-> tool.max_retries,
                                        apis |-> apis]),
                         !.result = Some([outcomes |-> r.outcomes,
                                          sleeps |-> r.sleeps])]
  /\ UNCHANGED <<quote_state, files, calculator, db_connections, builder>>

\* bom_tool.close()
Close ==
  /\ IsSome(bom_tool)
  /\ bom_tool' = Some([Val(bom_tool) EXCEPT !.client = FALSE])
  /\ last' = [NoCall EXCEPT !.op = "close", !.kind = "ok"]
  /\ UNCHANGED <<quote_state, files, calculator, db_connections, builder>>

\* db_tool.get_materials_bulk(material_names); db_ok = FALSE: the query
\* raises inside the with block
DbQuery ==
  \E material_names \in { <<S_flour, S_unicorn_dust>>, <<S_FLOUR>>, <<>> },
     db_ok \in BOOLEAN :
    /\ db_connections' = IF material_names = <<>> THEN db_connections
                         ELSE connection_scope(db_connections, db_ok)
    /\ last' = [NoCall EXCEPT
                  !.op = "get_materials_bulk",
                  !.kind = IF db_ok \/ material_names = <<>> THEN "ok" ELSE "raised",
                  !.exc = IF db_ok \/ material_names = <<>> THEN "none"
                          ELSE "sqlite3.Error",
                  !.args = Some(material_names),
                  !.result = IF db_ok \/ material_names = <<>>
                               THEN Some(get_materials_bulk(material_names))
                               ELSE None]
    /\ UNCHANGED <<quote_state, files, calculator, bom_tool, builder>>

NextTool ==
  \/ NewBOMAPITool
  \/ EstimateWithRetry
  \/ Close
  \/ DbQuery

SpecTool == Init /\ [][NextTool]_vars

(* ======================= properties ======================= *)
SessionFields ==
  {"bom_data", "material_costs", "calculations", "job_type", "quantity",
   "customer_name", "due_date"}

\* the outcomes of get_bom_estimate that report an unknown job type
UnknownJobTypeKinds == {"unknown_job_type", "cannot_get_bom"}

\* the collaborator failed: no connection, or an error status
ApiFailures == {"connect_error", "http_500", "http_400"}

\* the fallback estimate the specification prescribes for a job type of the
\* recipe table: per-unit quantities and labor hours times the quantity
ExpectedFallback(job_type_normalized, quantity) ==
  LET recipe == FALLBACK_RECIPES[job_type_normalized]
  IN  [job_type |-> job_type_normalized,
       quantity |-> quantity,
       materials |-> [i \in 1..Len(recipe.materials) |->
                        [name |-> recipe.materials[i].name,
                         qty |-> recipe.materials[i].qty * quantity,
                         unit |-> recipe.materials[i].unit]],
       labor_hours |-> recipe.labor_hours * quantity]

\* C1: a cost query made while no BOM estimate is stored fails with a
\* precondition error and changes no field of the conversation state
C1_CostQueryNeedsBom ==
  (last.op = "query_material_costs" /\ IsNone(quote_state.bom_data))
    => (last.kind = "precondition_error" /\ last.changed \cap SessionFields = {})

\* C2: when a requested material is missing, pricing is refused, the missing
\* names are reported, and neither the BOM estimate nor any cost resolved by
\* an earlier query is discarded
C2_RefusalKeepsResolvedState ==
  /\ (last.op = "query_material_costs" /\ last.missing # {})
       => (last.kind = "missing_materials" /\ last.dropped = {}
           /\ "bom_data" \notin last.changed)
  /\ (last.op = "render_quote" /\ IsSome(quote_state.bom_data)
      /\ IsSome(quote_state.material_costs)
      /\ SeqToSet(MaterialNames(Val(quote_state.bom_data).materials))
           \ DOMAIN Val(quote_state.material_costs) # {})
       => (last.kind # "ok" /\ "calculations" \notin last.changed
           /\ last.dropped = {} /\ "bom_data" \notin last.changed)

\* C3: a refused render_quote leaves customer_name, due_date, company_name,
\* notes, calculations and quote_id as they were
C3_RefusedRenderChangesNothing ==
  (last.op = "render_quote" /\ last.kind # "ok")
    => last.changed \cap {"customer_name", "due_date", "company_name",
                          "notes", "calculations", "quote_id"} = {}

\* C4: after reset, from any state, the session is in GATHERING with
\* bom_data, material_costs, calculations, quote_id, job_type, quantity,
\* customer_name and due_date all empty, and reset did not fail
C4_ResetClearsEverything ==
  last.op = "reset"
    => /\ last.kind = "ok"
       /\ \A f \in SessionFields \cup {"quote_id"} : IsNone(quote_state[f])
       /\ Stage(quote_state, files) = "GATHERING"

\* a reset made after pricing and rendering
C4_Witness ==
  /\ last.op = "reset"
  /\ {"bom_data", "material_costs", "calculations", "quote_id"} \subseteq last.changed

ResolvedEstimate ==
  IF last.op = "get_bom_estimate" THEN quote_state.bom_data ELSE last.est

\* a BOM-resolving call whose collaborator failed, for a job type of the table
FallbackCase(ops) ==
  /\ last.op \in ops
  /\ last.quantity > 0
  /\ last.api \in ApiFailures
  /\ NormalizeJobType(last.job_type) \in DOMAIN FALLBACK_RECIPES

C7_RetriedBeforeFallback ==
  (last.op = "get_bom_estimate" /\ last.fallback
   /\ last.exc = "bom_tool.APIConnectionError")
    => last.attempts >= max_retries

\* C8: when the collaborator rejects the job type (HTTP 400) the failure is
\* reported as an unknown job type after one attempt, without fallback and
\* without storing an estimate
C8_SemanticFailurePropagates ==
  (last.op = "get_bom_estimate" /\ last.exc = "bom_tool.InvalidJobTypeError")
    => /\ last.kind \in UnknownJobTypeKinds
       /\ ~last.fallback
       /\ last.attempts = 1
       /\ "bom_data" \notin last.changed

\* C9: a quantity that is not positive is refused with an invalid-quantity
\* error at both call sites and by BOMAPITool.estimate, nothing is stored,
\* and every stored estimate has a positive quantity and positive material
\* quantities
C9_StoredQuantityPositive ==
  /\ IsSome(quote_state.bom_data)
       => /\ Val(quote_state.bom_data).quantity > 0
          /\ \A i \in 1..Len(Val(quote_state.bom_data).materials) :
               Val(quote_state.bom_data).materials[i].qty > 0
  /\ (last.op \in {"get_bom_estimate", "generate_quote"} /\ last.quantity <= 0)
       => (/\ last.kind = "invalid_quantity"
           /\ last.changed = {}
           /\ IsNone(last.est)
           /\ estimate(last.job_type, last.quantity, last.api).exc = "ValueError")

\* get_bom_estimate refused for quantity 0 while an estimate is stored
C9_Witness ==
  /\ last.op = "get_bom_estimate" /\ last.quantity = 0
  /\ last.kind = "invalid_quantity"
  /\ IsSome(quote_state.bom_data)

\* C10: with the collaborator unavailable and a job type outside the recipe
\* table, get_bom_estimate reports an unknown job type, names cupcakes, cake
\* and pastry_box, and leaves bom_data, job_type and quantity unchanged
C10_UnknownJobTypeRefused ==
  (/\ last.op = "get_bom_estimate"
   /\ last.quantity > 0
   /\ last.api \in {"connect_error", "http_500"}
   /\ NormalizeJobType(last.job_type) \notin {S_cupcakes, S_cake, S_pastry_box})
    => /\ last.kind \in UnknownJobTypeKinds
       /\ last.named = {S_cupcakes, S_cake, S_pastry_box}
       /\ ~last.fallback
       /\ last.changed \cap {"bom_data", "job_type", "quantity"} = {}

\* the refusal while an earlier estimate is stored
C10_Witness ==
  /\ last.op = "get_bom_estimate" /\ last.api = "connect_error"
  /\ last.job_type = S_Cup_Cakes_
  /\ last.kind \in UnknownJobTypeKinds
  /\ IsSome(quote_state.bom_data)

\* C11: get_bom_estimate for the job type "Cup Cakes " sends the same
\* request key and ends as get_bom_estimate for "cupcakes" with the same
\* quantity does: same outcome, same stored estimate
C11_CupCakesResolvesAsCupcakes ==
  (last.op = "get_bom_estimate" /\ last.job_type = S_Cup_Cakes_
   /\ last.quantity > 0)
    => LET ref == get_bom_estimate_impl(InitialQuoteState, S_cupcakes,
                                        last.quantity, last.api)
       IN  /\ NormalizeJobType(last.job_type) = NormalizeJobType(S_cupcakes)
           /\ last.kind = ref.kind
           /\ last.kind = "ok" => quote_state.bom_data = ref.qs.bom_data

\* C12: a successful get_bom_estimate ends with bom_data equal to the
\* estimate the same call gives in a fresh session, whatever was stored
\* before, and equal to the estimate for the normalized job type
C12_ReinvocationReplacesEstimate ==
  (last.op = "get_bom_estimate" /\ last.quantity > 0)
    => LET fresh == get_bom_estimate_impl(InitialQuoteState, last.job_type,
                                          last.quantity, last.api)
           norm == get_bom_estimate_impl(InitialQuoteState,
                                         NormalizeJobType(last.job_type),
                                         last.quantity, last.api)
       IN  /\ last.kind = fresh.kind
           /\ last.kind = "ok"
                => /\ quote_state.bom_data = fresh.qs.bom_data
                   /\ quote_state.bom_data = norm.qs.bom_data
                   /\ Val(quote_state.bom_data).quantity = last.quantity
                   /\ Val(quote_state.bom_data).job_type = NormalizeJobType(last.job_type)

\* a fallback estimate for cupcakes replaces a stored estimate for
\* cupcakes of another quantity
C12_Witness ==
  /\ last.op = "get_bom_estimate" /\ last.kind = "ok" /\ last.fallback
  /\ last.job_type = S_cupcakes
  /\ "bom_data" \in last.changed /\ "job_type" \notin last.changed
  /\ "quantity" \in last.changed

\* C13: for every calculation returned by calculate_quote the stored total
\* is the stored price_before_vat plus the stored vat_value, rounded to 2
\* decimals (the sum of two amounts in hundredths is its own rounding)
C13_TotalIsSumOfStoredParts ==
  last.op = "calculate_quote"
    => Val(last.result).total
         = Val(last.result).price_before_vat + Val(last.result).vat_value

\* C14: for the concrete scenario (labor_hours 1.2, labor_rate 15.0, markup
\* 30%, VAT 20%) calculate_quote returns materials_subtotal 9.22, labor_cost
\* 18.00, subtotal 27.22, markup_value 8.17, price_before_vat 35.39,
\* vat_value 7.08 and total 42.47
C14_ConcreteScenario ==
  (/\ last.op = "calculate_quote"
   /\ Val(last.args) = [lines |-> ScenarioLines, labor_hours |-> 1200,
                        labor_rate |-> 1500, markup_pct |-> 30, vat_pct |-> 20])
    => Val(last.result) =
         [materials_subtotal |-> 922, labor_hours |-> 1200, labor_cost |-> 1800,
          subtotal |-> 2722, markup_value |-> 817, price_before_vat |-> 3539,
          vat_value |-> 708, total |-> 4247]

\* C15: with the lines, labor hours and labor rate of a calculation held
\* fixed, no larger markup_pct and no larger vat_pct within [0,1] gives a
\* smaller total
C15_TotalMonotonicInRates ==
  last.op = "calculate_quote"
    => LET a == Val(last.args)
       IN  /\ \A markup \in MarkupInputs :
                (a.markup_pct <= markup
                 /\ CalculatorRatesValid(a.labor_rate, markup, a.vat_pct))
                  => calculate_quote(a.lines, a.labor_hours, a.labor_rate,
                                     markup, a.vat_pct).total
                       >= Val(last.result).total
           /\ \A vat \in VatInputs :
                (a.vat_pct <= vat
                 /\ CalculatorRatesValid(a.labor_rate, a.markup_pct, vat))
                  => calculate_quote(a.lines, a.labor_hours, a.labor_rate,
                                     a.markup_pct, vat).total
                       >= Val(last.result).total

\* a calculation without markup whose total a markup of 30% raises
C15_Witness ==
  /\ last.op = "calculate_quote"
  /\ Val(last.args).markup_pct = 0 /\ Val(last.args).vat_pct = 20
  /\ Val(last.args).lines = ScenarioLines
  /\ calculate_quote(ScenarioLines, Val(last.args).labor_hours,
                     Val(last.args).labor_rate, 30, 20).total
       > Val(last.result).total

\* C16: calculate_quote on an empty material list gives materials_subtotal 0
\* with labor, markup and VAT applied (total 0 when labor hours, markup and
\* VAT are 0), and render_quote does not refuse a stored estimate with no
\* material, whose queried cost set is empty, for lack of data
C16_EmptyBomStillPriced ==
  /\ \A labor_hours \in LaborHoursInputs :
       LET r == calculate_quote(<<>>, labor_hours, labor_rate, markup_pct, vat_pct)
       IN  /\ r.materials_subtotal = 0
           /\ r.labor_cost = RoundHalfEven(labor_hours * labor_rate, QtyScale)
           /\ r.subtotal = r.labor_cost
           /\ labor_hours > 0 => (r.markup_value > 0 /\ r.vat_value > 0)
  /\ calculate_quote(<<>>, 0, labor_rate, 0, 0).total = 0
  /\ (/\ last.op = "render_quote"
      /\ IsSome(quote_state.bom_data)
      /\ Val(quote_state.bom_data).materials = <<>>
      /\ quote_state.material_costs = Some(<<>>))
       => last.kind \notin {"no_bom_data", "no_material_costs"}

\* the rates a calculator may hold: labor_rate >= 0, markup_pct >= 0 and
\* 0 <= vat_pct <= 1
RatesInRange(rates) ==
  /\ rates.labor_rate >= 0
  /\ rates.markup_pct >= 0
  /\ rates.vat_pct >= 0 /\ rates.vat_pct <= 100

\* C17: constructing a PricingCalculator fails, and gives no calculator,
\* exactly when labor_rate < 0, markup_pct < 0, vat_pct < 0 or vat_pct > 1;
\* otherwise it stores the three rates unchanged; every calculator, and
\* every call of calculate_quote, has rates in range
C17_RatesCheckedAtConstruction ==
  /\ last.op = "PricingCalculator"
       => /\ (last.exc = "ValueError") <=> ~RatesInRange(Val(last.args))
          /\ last.exc = "ValueError" => IsNone(last.result)
          /\ last.exc # "ValueError"
               => (last.result = last.args /\ calculator = last.args)
  /\ IsSome(calculator) => RatesInRange(Val(calculator))
  /\ last.op = "calculate_quote"
       => /\ RatesInRange(Val(last.args))
          /\ Val(last.args).labor_rate = Val(calculator).labor_rate
          /\ Val(last.args).markup_pct = Val(calculator).markup_pct
          /\ Val(last.args).vat_pct = Val(calculator).vat_pct

\* a construction refused only for a VAT rate above 1, while a calculator
\* made earlier exists
C17_Witness ==
  /\ last.op = "PricingCalculator" /\ last.exc = "ValueError"
  /\ Val(last.args) = [labor_rate |-> 1500, markup_pct |-> 30, vat_pct |-> 101]
  /\ IsSome(calculator)

\* the family of a unit: the set of UNIT_FAMILIES it belongs to, {} for an
\* unrecognized unit
FamilyOf(unit) ==
  IF \E family_units \in UNIT_FAMILIES : unit \in family_units
    THEN CHOOSE family_units \in UNIT_FAMILIES : unit \in family_units
    ELSE {}

\* C18: a conversion within a family, converted back, gives the value
\* converted, and a conversion from a supported unit to itself gives the
\* value
C18_ConversionRoundTrips ==
  (last.op = "convert" /\ last.exc = "none")
    => LET a == Val(last.args)
           back == convert(Val(last.result), a.to_unit, a.from_unit)
       IN  /\ back.exc = "none"
           /\ back.value = Some(a.value)
           /\ a.from_unit = a.to_unit => last.result = Some(a.value)

\* C19: convert raises, and returns no value, whenever the two units are
\* of different families or one of them is unrecognized (the same
\* unrecognized unit on both sides included), and returns a value
\* otherwise; each converts only to itself
C19_IncompatibleUnitsRaise ==
  last.op = "convert"
    => LET a == Val(last.args)
           compatible == /\ FamilyOf(a.from_unit) # {}
                         /\ FamilyOf(a.from_unit) = FamilyOf(a.to_unit)
       IN  /\ ~compatible => (last.exc = "UnitConversionError" /\ IsNone(last.result))
           /\ compatible => (last.exc = "none" /\ IsSome(last.result))
           /\ (a.from_unit = "each" /\ last.exc = "none") => a.to_unit = "each"

\* the same unrecognized unit on both sides
C19_Witness ==
  /\ last.op = "convert" /\ last.exc = "UnitConversionError"
  /\ Val(last.args).from_unit = "lb" /\ Val(last.args).to_unit = "lb"
  /\ Val(last.args).value = Float(5, 1)

\* C20: a cost query that reaches the cost source stores entries for
\* exactly the requested names with a case-insensitive match in the source
\* and reports as missing exactly the requested names without one
C20_MissingDetectionExact ==
  (last.op = "query_material_costs" /\ last.kind # "error_querying")
    => LET requested == SeqToSet(Val(last.args))
           HasMatch(n) == \E r \in MaterialsTable : Lower(r.name) = Lower(n)
       IN  /\ last.missing = { n \in requested : ~HasMatch(n) }
           /\ { Lower(k) : k \in DOMAIN Val(quote_state.material_costs) }
                = { Lower(n) : n \in { x \in requested : HasMatch(x) } }

\* the mandatory fields of a quote record
MandatoryFields ==
  {"quote_id", "company_name", "customer_name", "job_type", "quantity",
   "total", "currency"}

\* C21: build fails exactly when a mandatory field has not been set, the
\* failure names every missing mandatory field, a successful build returns
\* the data of the builder, each setter stores the values passed to it and
\* leaves every other field alone, and setter calls commute
C21_BuildNamesEveryMissingField ==
  /\ last.op = "build"
       => /\ (last.exc = "ValueError")
               <=> (\E f \in MandatoryFields : f \notin DOMAIN builder)
          /\ last.exc = "ValueError"
               => /\ last.missing = { f \in MandatoryFields : f \notin DOMAIN builder }
                  /\ IsNone(last.result)
          /\ last.exc # "ValueError" => last.result = Some(builder)
  /\ \A call \in SetterCalls :
       LET after == ApplySetter(call, builder)
           passed == DOMAIN call.args \ {"quote_date", "valid_days"}
       IN  /\ \A k \in passed : k \in DOMAIN after /\ after[k] = call.args[k]
           /\ call.setter = "set_header" /\ IsSome(call.args.quote_date)
                => after.quote_date = Val(call.args.quote_date)
           /\ \A k \in DOMAIN builder \ (passed \cup {"quote_date", "valid_until"}) :
                after[k] = builder[k]
  /\ \A c1 \in SetterCalls, c2 \in SetterCalls :
       c1.setter # c2.setter
         => ApplySetter(c2, ApplySetter(c1, builder))
              = ApplySetter(c1, ApplySetter(c2, builder))

\* build refused after set_header alone: four fields are named
C21_Witness ==
  /\ last.op = "build" /\ last.exc = "ValueError"
  /\ last.missing = {"job_type", "quantity", "total", "currency"}
  /\ "customer_name" \in DOMAIN builder

\* C30: a record that build returns is not rejected by render_and_save for a
\* missing field
C30_BuiltRecordRenders ==
  (last.op = "build_and_render" /\ last.kind # "build_raised")
    => last.missing = {}

\* C22: constructing a BOMAPITool while the BOM API refuses connections
\* raises APIConnectionError and gives no object
C22_ConstructionFailsWhenApiDown ==
  (last.op = "BOMAPITool" /\ last.api = "connect_error")
    => (last.exc = "bom_tool.APIConnectionError" /\ IsNone(last.result))

\* C23: after every operation of the BOM client or of the database has
\* returned or raised, no database connection and no HTTP client is open
C23_NoResourceOutlivesCall ==
  last.op \in {"BOMAPITool", "estimate_with_retry", "get_materials_bulk"}
    => /\ db_connections = 0
       /\ IsSome(bom_tool) => ~Val(bom_tool).client

\* C24: estimate_with_retry calls estimate at most max_retries times, goes
\* on only after an APIConnectionError, returns the first response, waits
\* 2^k seconds after failed attempt k (from 0) unless it was the final one,
\* raises APIConnectionError after max_retries connection failures, and
\* stops at once on any other error
C24_RetryLoop ==
  last.op = "estimate_with_retry"
    => LET n == Val(last.args).max_retries
           apis == Val(last.args).apis
           o == Val(last.result).outcomes
           sleeps == Val(last.result).sleeps
           k == Len(o)
           conn == "bom_tool.APIConnectionError"
       IN  /\ k <= n /\ last.attempts = k
           /\ \A i \in 1..k : o[i] = estimate(last.job_type, last.quantity, apis[i]).exc
           /\ \A i \in 1..(k-1) : o[i] = conn
           /\ k < n => (k >= 1 /\ o[k] # conn)
           /\ (k >= 1 /\ o[k] = "none")
                => (last.exc = "none"
                    /\ last.est = estimate(last.job_type, last.quantity, apis[k]).est)
           /\ (k >= 1 /\ o[k] # "none" /\ o[k] # conn) => last.exc = o[k]
           /\ (k >= 1 /\ k = n /\ o[k] = conn) => last.exc = conn
           /\ sleeps = [i \in 1..Cardinality({j \in 1..k : o[j] = conn /\ j < n})
                          |-> 2^(i-1)]

\* three connection failures with max_retries = 3: waits of 1 and 2 seconds
C24_Witness ==
  /\ last.op = "estimate_with_retry"
  /\ Val(last.args).max_retries = 3
  /\ last.attempts = 3
  /\ last.exc = "bom_tool.APIConnectionError"
  /\ Val(last.result).sleeps = <<1, 2>>

\* C25: estimate_with_retry ends with an EstimateResponse, or with an
\* APIConnectionError, an InvalidJobTypeError or the invalid-quantity error
C25_RetryEndsInKnownOutcome ==
  last.op = "estimate_with_retry"
    => \/ (last.exc = "none" /\ IsSome(last.est))
       \/ last.exc \in {"bom_tool.APIConnectionError",
                        "bom_tool.InvalidJobTypeError", "ValueError"}

\* C26: stored calculations are the ones computed from the stored bom_data
\* and material_costs, and after a BOM resolution that replaced bom_data
\* the stored costs cover the materials of the new estimate
C26_CalculationsMatchStoredInputs ==
  /\ IsSome(quote_state.calculations)
       => /\ IsSome(quote_state.bom_data)
          /\ IsSome(quote_state.material_costs)
          /\ calculate_quote_totals(quote_state).calc = quote_state.calculations
  /\ (/\ last.op = "get_bom_estimate"
      /\ "bom_data" \in last.changed
      /\ IsSome(quote_state.bom_data)
      /\ IsSome(quote_state.material_costs))
       => SeqToSet(MaterialNames(Val(quote_state.bom_data).materials))
            \subseteq DOMAIN Val(quote_state.material_costs)

\* C27: after a successful get_bom_estimate the header job_type and quantity
\* are those of the stored estimate
C27_HeaderAgreesWithEstimate ==
  (last.op = "get_bom_estimate" /\ last.kind = "ok")
    => /\ quote_state.job_type = Some(Val(quote_state.bom_data).job_type)
       /\ quote_state.quantity = Some(Val(quote_state.bom_data).quantity)

\* C28: rates accepted by Config.validate construct the PricingCalculator
\* of _calculate_quote_totals without an error
C28_AcceptedConfigBuildsCalculator ==
  (last.op = "configured_calculator" /\ last.kind # "config_rejected")
    => (last.exc = "none" /\ IsSome(last.result))

\* C29: a successful rendering gets a quote id whose file no earlier
\* rendering has written
C29_RenderingsGetDistinctFiles ==
  [][(last'.op = "render_quote" /\ last'.kind = "ok")
       => Val(quote_state'.quote_id) \notin files]_vars

====
